---------------------------- MODULE Spec2Model ----------------------------
(***************************************************************************)
(* A model of wedow/fractals: the Canvas raster operations of canvas.go    *)
(* (DrawRect, Clone, Blur, BlurPixel and the weight functions) and the     *)
(* fractal viewer of fractal.go (mandelbrot, createColorizer, the command  *)
(* loop of main and keyHandler).                                           *)
(***************************************************************************)
EXTENDS Integers, Sequences, FiniteSets, TLC

(***************************************************************************)
(* float64 arithmetic.  A float is [m, e] with value m * 2^e, m = 0 or     *)
(* 2^(Prec-1) <= |m| < 2^Prec.  Every operation computes the exact result  *)
(* and rounds it to nearest, ties to even, as IEEE 754 binary64 does; the  *)
(* significand has Prec bits instead of 53 and the exponent is unbounded   *)
(* (no input of the model overflows or underflows binary64's range).       *)
(* An operation takes its operands as values: Only({F(x) : x \in {a}})     *)
(* computes the operand a once and applies F to the value.                 *)
(***************************************************************************)
Prec == 12

\* The number of binary digits of a, 0 <= a < 2^30.
BitLen(a) == CHOOSE k \in 0..30 : a < 2^k /\ (k = 0 \/ a >= 2^(k - 1))

Abs(n) == IF n < 0 THEN -n ELSE n

Sgn(n) == IF n < 0 THEN -1 ELSE 1

FZero == [m |-> 0, e |-> 0]

Only(S) == CHOOSE x \in S : TRUE

\* The float nearest to n * 2^e (ties to even).
Nearest(n, e) ==
  IF n = 0 THEN FZero
  ELSE LET a == Abs(n)
           bits == BitLen(a)
       IN IF bits <= Prec
          THEN [m |-> Sgn(n) * a * 2^(Prec - bits), e |-> e - (Prec - bits)]
          ELSE LET s == bits - Prec
                   q == a \div 2^s
                   r == a % 2^s
                   half == 2^(s - 1)
                   up == r > half \/ (r = half /\ q % 2 = 1)
                   q1 == IF up THEN q + 1 ELSE q
               IN IF q1 = 2^Prec
                  THEN [m |-> Sgn(n) * 2^(Prec - 1), e |-> e + s + 1]
                  ELSE [m |-> Sgn(n) * q1, e |-> e + s]

Round(n, e) == Only({ Nearest(x, y) : x \in {n}, y \in {e} })

FromInt(n) == Round(n, 0)

FNeg(a) == [m |-> -a.m, e |-> a.e]

FAbs(a) == [m |-> Abs(a.m), e |-> a.e]

\* a + b.  An addend more than Prec+1 binary places below the other is less
\* than a quarter of its last place and is absorbed by the rounding.
Sum(a, b) ==
  IF a.m = 0 THEN b
  ELSE IF b.m = 0 THEN a
  ELSE LET hi == IF a.e >= b.e THEN a ELSE b
           lo == IF a.e >= b.e THEN b ELSE a
           d == hi.e - lo.e
       IN IF d > Prec + 1 THEN hi
          ELSE Round(hi.m * 2^d + lo.m, lo.e)

FAdd(a, b) == Only({ Sum(x, y) : x \in {a}, y \in {b} })

FSub(a, b) == FAdd(a, FNeg(b))

Product(a, b) == Round(a.m * b.m, a.e + b.e)

FMul(a, b) == Only({ Product(x, y) : x \in {a}, y \in {b} })

\* a / b, b # 0: Prec+2 quotient bits and a sticky bit, then rounded.
Quotient(a, b) ==
  IF a.m = 0 THEN FZero
  ELSE LET n == Abs(a.m) * 2^(Prec + 2)
           q == n \div Abs(b.m)
           st == IF n % Abs(b.m) = 0 THEN 0 ELSE 1
       IN Round(Sgn(a.m) * Sgn(b.m) * (2 * q + st), a.e - b.e - Prec - 3)

FDiv(a, b) == Only({ Quotient(x, y) : x \in {a}, y \in {b} })

\* a < b on the values.
FLess(a, b) ==
  LET d == FSub(a, b) IN d.m < 0

FMax(a, b) == IF FLess(a, b) THEN b ELSE a

FMin(a, b) == IF FLess(b, a) THEN b ELSE a

RECURSIVE ISqrtIn(_, _, _)
\* The largest s in lo..hi with s*s <= n (lo*lo <= n).
ISqrtIn(n, lo, hi) ==
  IF lo = hi THEN lo
  ELSE LET mid == (lo + hi + 1) \div 2
       IN IF mid * mid <= n THEN ISqrtIn(n, mid, hi) ELSE ISqrtIn(n, lo, mid - 1)

\* The square root of a >= 0, correctly rounded.
Root(a) ==
  IF a.m = 0 THEN FZero
  ELSE LET k == IF (a.e - Prec) % 2 = 0 THEN Prec + 2 ELSE Prec + 1
           n == a.m * 2^k
           s == ISqrtIn(n, 0, 2^(Prec + 1))
           st == IF s * s = n THEN 0 ELSE 1
       IN Round(2 * s + st, (a.e - k) \div 2 - 1)

\* math.Sqrt
FSqrt(a) == Only({ Root(x) : x \in {a} })

\* The integer part of a (|a| < 2^30).
Trunc(a) ==
  IF a.e >= 0 THEN a.m * 2^(a.e)
  ELSE IF -a.e >= 31 THEN 0
  ELSE Sgn(a.m) * (Abs(a.m) \div 2^(-a.e))

\* int(a): truncation toward zero
FToInt(a) == Only({ Trunc(x) : x \in {a} })

(***************************************************************************)
(* complex128: a pair of floats.                                           *)
(***************************************************************************)
Cx(re, im) == [re |-> re, im |-> im]

CAdd(a, b) ==
  Only({ Cx(FAdd(x.re, y.re), FAdd(x.im, y.im)) : x \in {a}, y \in {b} })

CSub(a, b) ==
  Only({ Cx(FSub(x.re, y.re), FSub(x.im, y.im)) : x \in {a}, y \in {b} })

\* (a.re*b.re - a.im*b.im) + (a.re*b.im + a.im*b.re)i, each operation rounded.
CProduct(a, b) ==
  Cx(FSub(FMul(a.re, b.re), FMul(a.im, b.im)),
     FAdd(FMul(a.re, b.im), FMul(a.im, b.re)))

CMul(a, b) == Only({ CProduct(x, y) : x \in {a}, y \in {b} })

\* p, q = |p|, |q|; the larger first; p * Sqrt(1 + (q/p)*(q/p)).
HypotOf(x, y) ==
  LET ax == FAbs(x)
      ay == FAbs(y)
      p == IF FLess(ax, ay) THEN ay ELSE ax
      q == IF FLess(ax, ay) THEN ax ELSE ay
  IN IF p.m = 0 THEN FZero
     ELSE LET r == FDiv(q, p)
          IN FMul(p, FSqrt(FAdd(FromInt(1), FMul(r, r))))

\* math.Hypot
Hypot(a, b) == Only({ HypotOf(x, y) : x \in {a}, y \in {b} })

\* cmplx.Abs
CAbs(z) == Hypot(z.re, z.im)

VARIABLES
  mpc,      \* mandelbrot: "idle", "loop" (at the loop test), "done"
  mc,       \* its argument c
  mz,       \* its local z
  mi,       \* its loop counter i
  mret,     \* its return value
  cpc,      \* the colorizer: "none", "created", "called"
  gLimit,   \* createColorizer: limit
  gH,       \* the height of the gradient strip it loaded
  cmag,     \* the colorizer's last argument
  cm,       \* the row m it read from the gradient
  build,    \* what the build's float-to-uint8 conversion does with NaN
  size,     \* the canvas c: c.Bounds().Size()
  heap,     \* the pixel buffers (Pix), by buffer
  cbuf,     \* the buffer c.Pix points to
  clone,    \* Blur: the buffer clone.Pix points to, 0 before Clone
  opc,      \* the canvas operation: "idle", "blur", "blurDone", "rectDone"
  bx, by,   \* Blur: the loop counters x, y
  radius,   \* Blur: its argument radius
  weight,   \* Blur: its argument weight
  before,   \* the pixels of c when the operation was called
  sampled,  \* the coordinates the last BlurPixel passed to c.At
  zeroDiv,  \* Blur stored a pixel computed with weightSum = 0
  rect,     \* DrawRect: its arguments
  written,  \* DrawRect: the coordinates at which Set stored color
  events,   \* the window's event channel: the events not yet received
  nEvents,  \* how many events the window has sent
  closeSent, \* the window has sent a CloseEvent
  input,    \* the channel input: the commands buffered in it
  khpc,     \* keyHandler: "recvEvent", "drainTest", "drainRecv", "send",
            \* "sendDone", "exited"
  khI,      \* keyHandler: the drain loop's i
  khCmd,    \* keyHandler: the command it is sending
  khLast,   \* the type of the last event keyHandler received
  clTook,   \* the command loop received from input since the last KeyUpEvent
  clpc,     \* the command loop: "recv", "call", "drawing", "copy", "flush"
  zoom, center,   \* main's zoom and center
  drawArgs, \* the zoom and center the drawFractal call in progress was passed
  canvasView,     \* what canvas holds: a view's frame, complete or partly drawn
  screenView,     \* what the window's screen buffer holds
  shownView,      \* what was last flushed to the window
  started,  \* the drawFractal calls made
  flushed,  \* the frames flushed
  mainpc    \* main: "wait" at <-done, "exited"

fvars == <<mpc, mc, mz, mi, mret>>
gvars == <<cpc, gLimit, gH, cmag, cm>>
cvars == <<build, size, heap, cbuf, clone, opc, bx, by, radius, weight,
           before, sampled, zeroDiv, rect, written>>
uvars == <<events, nEvents, closeSent, input, khpc, khI, khCmd, khLast, clTook,
           clpc, zoom, center, drawArgs, canvasView, screenView, shownView,
           started, flushed, mainpc>>

(***************************************************************************)
(* mandelbrot(c, iter), one action per loop iteration.                     *)
(***************************************************************************)
Iter == 50

Bailout == 1000

\* The largest number of binary places below 1 of an input of mandelbrot.
TinyExp == 120

\* The float just above 2.
TwoUp == [m |-> 2^(Prec - 1) + 1, e |-> 2 - Prec]

\* The float just below 2.
TwoDown == [m |-> 2^Prec - 1, e |-> 1 - Prec]

CReInputs ==
  { FromInt(-3), Round(-9, -2), FNeg(FAdd(TwoUp, Round(1, 2 - Prec))),
    FNeg(TwoUp), FromInt(-2), FNeg(TwoDown), FromInt(-1), FZero, Round(1, -2),
    FromInt(2) }

CImInputs ==
  { FZero, Round(1, -TinyExp), Round(1, -7), Round(1, -6), Round(1, -5),
    Round(1, -4), FromInt(1), FromInt(2) }

CInputs == { Cx(re, im) : re \in CReInputs, im \in CImInputs }

FractalIdle ==
  /\ mpc = "idle" /\ mc = Cx(FZero, FZero) /\ mz = Cx(FZero, FZero)
  /\ mi = 0 /\ mret = FZero

\* line 28 with z + c for z*z + c
StepLinear(z, c) == CAdd(z, c)

\* line 28: z*z + c
Step(z, c) == CAdd(CMul(z, z), c)

\* line 29: cmplx.Abs(z) > 1000
Escaped(z) == FLess(FromInt(Bailout), CAbs(z))

\* line 25-26: the call, z := 0
MandelCall(c) ==
  /\ mpc \in {"idle", "done"}
  /\ mc' = c
  /\ mz' = Cx(FZero, FZero)
  /\ mi' = 0
  /\ mret' = FZero
  /\ mpc' = "loop"
  /\ UNCHANGED <<gvars, cvars, uvars>>

\* lines 27-31: one iteration of the loop
MandelIter ==
  /\ mpc = "loop"
  /\ mi < Iter
  /\ \E z \in {Step(mz, mc)} :
        /\ mz' = z
        /\ IF Escaped(z)
           THEN /\ mret' = FromInt(Bailout)
                /\ mpc' = "done"
                /\ mi' = mi
           ELSE /\ mi' = mi + 1
                /\ UNCHANGED <<mret, mpc>>
  /\ UNCHANGED <<mc, gvars, cvars, uvars>>

\* line 33: the loop ran out
MandelReturn ==
  /\ mpc = "loop"
  /\ mi >= Iter
  /\ mret' = CAbs(mz)
  /\ mpc' = "done"
  /\ UNCHANGED <<mc, mz, mi, gvars, cvars, uvars>>

ColorIdle == cpc = "none" /\ gLimit = 0 /\ gH = 0 /\ cmag = FZero /\ cm = 0

MandelNext == (\E c \in CInputs : MandelCall(c)) \/ MandelIter \/ MandelReturn

(***************************************************************************)
(* createColorizer and the colorizer it returns.                           *)
(***************************************************************************)
GradScale == 300

\* The largest height of a gradient strip.
MaxGradH == 6

\* Magnitudes 0, 1/1024, ..., MaxMagK/1024.
MaxMagK == 24

MagInputs ==
  { Round(k, -10) : k \in 0..MaxMagK } \cup { FromInt(1), FromInt(2), FromInt(Bailout) }

\* line 40: limit := gradient.Bounds().Size().Y - 1
Limit(h) == h - 1

\* line 43, without the lower clamp
ColorIndexNoFloor(limit, mag) ==
  FToInt(FMin(FMul(FromInt(GradScale), mag), FromInt(limit)))

\* line 43: m := int(math.Max(math.Min(300*mag, float64(limit)), 1))
ColorIndex(limit, mag) ==
  FToInt(FMax(FMin(FMul(FromInt(GradScale), mag), FromInt(limit)), FromInt(1)))

\* lines 38-40: the gradient strip of height h is loaded
CreateColorizer(h) ==
  /\ gH' = h
  /\ gLimit' = Limit(h)
  /\ cpc' = "created"
  /\ cmag' = FZero
  /\ cm' = 0
  /\ UNCHANGED <<fvars, cvars, uvars>>

\* lines 41-45: the colorizer is called and reads gradient.At(0, m)
ColorizerCall(mag) ==
  /\ cpc \in {"created", "called"}
  /\ cmag' = mag
  /\ cm' = ColorIndex(gLimit, mag)
  /\ cpc' = "called"
  /\ UNCHANGED <<gLimit, gH, fvars, cvars, uvars>>

ColorNext ==
  \/ \E h \in 1..MaxGradH : CreateColorizer(h)
  \/ \E mag \in MagInputs : ColorizerCall(mag)


(***************************************************************************)
(* Canvas (canvas.go).  A Canvas is an image.RGBA: a rectangle             *)
(* (0,0)-(size.X,size.Y) and the slice Pix, which points into a buffer.    *)
(* A buffer is modelled pixel by pixel: heap[b][<<x, y>>] is the           *)
(* color.RGBA at (x, y).                                                   *)
(***************************************************************************)
\* The largest width and height of a canvas.
MaxW == 2

MaxH == 2

\* The largest radius passed to Blur, and the largest split of a
\* WeightFunctionDouble.
MaxRadius == 2

MaxSplit == 2

RGBA(r, g, b, a) == [R |-> r, G |-> g, B |-> b, A |-> a]

\* color.RGBA{}: what image.RGBA.At returns outside the rectangle, and what
\* image.NewRGBA fills a buffer with.
Transparent == RGBA(0, 0, 0, 0)

Palette ==
  <<RGBA(0, 100, 127, 255), RGBA(128, 200, 254, 255), RGBA(255, 255, 255, 255),
    Transparent>>

Points(sz) == (0..(sz.X - 1)) \X (0..(sz.Y - 1))

InBounds(sz, x, y) == 0 <= x /\ x < sz.X /\ 0 <= y /\ y < sz.Y

\* The canvases the operations start from: every size up to MaxW x MaxH,
\* filled with the palette along x and y.
Fill(sz, s, dx, dy) ==
  [p \in Points(sz) |-> Palette[((s + dx * p[1] + dy * p[2]) % Len(Palette)) + 1]]

CanvasInputs ==
  { [size |-> [X |-> w, Y |-> h], pix |-> Fill([X |-> w, Y |-> h], s, dx, dy)] :
      w \in 1..MaxW, h \in 1..MaxH,
      s \in 0..(Len(Palette) - 1), dx \in 0..(Len(Palette) - 1),
      dy \in 0..(Len(Palette) - 1) }

\* image.RGBA.At: the pixel, color.RGBA{} outside the rectangle
At(pix, sz, x, y) == IF InBounds(sz, x, y) THEN pix[<<x, y>>] ELSE Transparent

\* image.RGBA.Set: stores the color, nothing outside the rectangle
Set(pix, sz, x, y, color) ==
  IF InBounds(sz, x, y) THEN [pix EXCEPT ![<<x, y>>] = color] ELSE pix

\* color.RGBA.RGBA(): each 8-bit channel v widened to 16 bits, v | v<<8
Widen(v) == v * 257

\* NewCanvas: a fresh zeroed buffer
NewCanvas(h, sz) ==
  LET b == Cardinality(DOMAIN h) + 1
  IN [heap |-> [i \in (DOMAIN h) \cup {b} |->
                  IF i = b THEN [p \in Points(sz) |-> Transparent] ELSE h[i]],
      buf |-> b]

\* A clone that shares the receiver's buffer.
CloneShallow(h, sz, b) == [heap |-> h, buf |-> b]

\* lines 22-26: Clone, a new buffer and copy(clone.Pix, c.Pix)
Clone(h, sz, b) ==
  LET n == NewCanvas(h, sz)
  IN [heap |-> [n.heap EXCEPT ![n.buf] = h[b]], buf |-> n.buf]

(***************************************************************************)
(* The weight functions.  WeightFunctionBox and WeightFunctionDouble       *)
(* return 0 or 1, so BlurPixel's float64 sums are integers that binary64   *)
(* holds exactly; WeightFunctionDist and WeightFunctionMotion return       *)
(* irrational weights and are not modelled.                                *)
(***************************************************************************)
Box == [kind |-> "Box", split |-> 0]

Double(split) == [kind |-> "Double", split |-> split]

Weights == {Box} \cup { Double(k) : k \in 0..MaxSplit }

\* line 149 and lines 175-181
Weight(w, x, y) ==
  IF w.kind = "Box" THEN 1
  ELSE IF y = 0 /\ (x = w.split \/ x = -w.split) THEN 1 ELSE 0

\* What uint8(NaN) yields: the conversion is implementation-dependent, 0 where
\* the hardware converts NaN to 0 or to the smallest integer, 255 where it
\* converts NaN to the largest integer.
NaNBytes == {0, 255}

\* uint8(num / den) for integers num >= 0, den >= 0 held as float64: 0/0 is
\* NaN; a quotient up to 255 is truncated; a larger one (at most 257 here) is
\* converted to an integer and cut to its low byte.
ToUint8(num, den, nanByte) ==
  IF den = 0 THEN nanByte
  ELSE LET q == num \div den IN IF q <= 255 THEN q ELSE q % 256

\* lines 118 and 122: if i < 0 || i > size.X { continue }
Skip(v, extent) == v < 0 \/ v > extent

\* The coordinates BlurPixel's loops reach past both tests.
Window(sz, x, y, r) ==
  { p \in ((x - r)..(x + r)) \X ((y - r)..(y + r)) :
      ~Skip(p[1], sz.X) /\ ~Skip(p[2], sz.Y) }

RECURSIVE SumFn(_)
SumFn(f) ==
  IF DOMAIN f = {} THEN 0
  ELSE LET p == CHOOSE q \in DOMAIN f : TRUE
       IN f[p] + SumFn([q \in (DOMAIN f) \ {p} |-> f[q]])

\* lines 113-140
BlurPixel(pix, sz, x, y, r, w, nanByte) ==
  LET win == Window(sz, x, y, r)
      wt == [p \in win |-> Weight(w, p[1] - x, p[2] - y)]
      outR == SumFn([p \in win |-> Widen(At(pix, sz, p[1], p[2]).R) * wt[p]])
      outG == SumFn([p \in win |-> Widen(At(pix, sz, p[1], p[2]).G) * wt[p]])
      outB == SumFn([p \in win |-> Widen(At(pix, sz, p[1], p[2]).B) * wt[p]])
      weightSum == SumFn(wt)
  IN [color |-> RGBA(ToUint8(outR, weightSum * 255, nanByte),
                     ToUint8(outG, weightSum * 255, nanByte),
                     ToUint8(outB, weightSum * 255, nanByte), 255),
      weightSum |-> weightSum,
      sampled |-> win]

NoRect == [color |-> Transparent, minX |-> 0, minY |-> 0, maxX |-> 0, maxY |-> 0]

CanvasIdle ==
  /\ build = 0 /\ size = [X |-> 1, Y |-> 1]
  /\ heap = <<[p \in Points(size) |-> Transparent]>>
  /\ cbuf = 1 /\ clone = 0 /\ opc = "idle" /\ bx = 0 /\ by = 0
  /\ radius = 0 /\ weight = Box /\ before = heap[1] /\ sampled = {}
  /\ zeroDiv = FALSE /\ rect = NoRect /\ written = {}

\* lines 101-103: Blur is called, clone := c.Clone()
BlurCall(r, w, nanByte) ==
  /\ opc = "idle"
  /\ LET cl == Clone(heap, size, cbuf)
     IN heap' = cl.heap /\ clone' = cl.buf
  /\ before' = heap[cbuf]
  /\ radius' = r /\ weight' = w /\ build' = nanByte
  /\ bx' = 0 /\ by' = 0
  /\ opc' = "blur"
  /\ UNCHANGED <<size, cbuf, sampled, zeroDiv, rect, written, fvars, gvars, uvars>>

\* lines 104-109: one pixel, color := c.BlurPixel(...); clone.Set(x, y, color)
BlurStep ==
  /\ opc = "blur"
  /\ bx < size.X
  /\ LET p == BlurPixel(heap[cbuf], size, bx, by, radius, weight, build)
     IN /\ heap' = [heap EXCEPT ![clone] = Set(@, size, bx, by, p.color)]
        /\ sampled' = p.sampled
        /\ zeroDiv' = (zeroDiv \/ p.weightSum = 0)
  /\ IF by + 1 < size.Y
     THEN by' = by + 1 /\ bx' = bx
     ELSE by' = 0 /\ bx' = bx + 1
  /\ UNCHANGED <<build, size, cbuf, clone, opc, radius, weight, before, rect,
                 written, fvars, gvars, uvars>>

\* line 110: copy(c.Pix, clone.Pix)
BlurReturn ==
  /\ opc = "blur"
  /\ bx >= size.X
  /\ heap' = [heap EXCEPT ![cbuf] = heap[clone]]
  /\ opc' = "blurDone"
  /\ UNCHANGED <<build, size, cbuf, clone, bx, by, radius, weight, before,
                 sampled, zeroDiv, rect, written, fvars, gvars, uvars>>

\* lines 82-83, with an exclusive upper corner
PastExclusive(v, max) == v >= max

\* lines 82-83: the loops run while x <= int(max.X), y <= int(max.Y)
Past(v, max) == v > max

RECURSIVE RectFrom(_, _, _, _, _)
\* lines 82-86 from (x, y) on; acc is the pixels and the coordinates stored so far
RectFrom(acc, sz, r, x, y) ==
  IF Past(x, r.maxX) THEN acc
  ELSE IF Past(y, r.maxY) THEN RectFrom(acc, sz, r, x + 1, r.minY)
  ELSE RectFrom([pix |-> Set(acc.pix, sz, x, y, r.color),
                 written |-> IF InBounds(sz, x, y)
                             THEN acc.written \cup {<<x, y>>} ELSE acc.written],
                sz, r, x, y + 1)

RectColors == { RGBA(10, 20, 30, 255), Palette[3] }

\* The corners: one pixel outside the largest canvas on every side.
RectInputs ==
  { [color |-> c, minX |-> x0, minY |-> y0, maxX |-> x1, maxY |-> y1] :
      c \in RectColors, x0 \in -1..MaxW, x1 \in -1..MaxW,
      y0 \in -1..MaxH, y1 \in -1..MaxH }

\* lines 81-87: DrawRect(color, min, max), min and max with integer X and Y
DrawRect(r) ==
  /\ opc = "idle"
  /\ LET res == RectFrom([pix |-> heap[cbuf], written |-> {}], size, r,
                         r.minX, r.minY)
     IN /\ heap' = [heap EXCEPT ![cbuf] = res.pix]
        /\ written' = res.written
  /\ before' = heap[cbuf]
  /\ rect' = r
  /\ opc' = "rectDone"
  /\ UNCHANGED <<build, size, cbuf, clone, bx, by, radius, weight, sampled,
                 zeroDiv, fvars, gvars, uvars>>

CanvasInit ==
  /\ \E c \in CanvasInputs :
       /\ size = c.size
       /\ heap = <<c.pix>>
       /\ before = c.pix
  /\ build = 0 /\ cbuf = 1 /\ clone = 0 /\ opc = "idle" /\ bx = 0 /\ by = 0
  /\ radius = 0 /\ weight = Box /\ sampled = {}
  /\ zeroDiv = FALSE /\ rect = NoRect /\ written = {}

(***************************************************************************)
(* The viewer (fractal.go, main and keyHandler).  The state starts where   *)
(* main has drawn and flushed the first frame and started keyHandler and   *)
(* the command loop (line 85), and waits on done (line 112).               *)
(***************************************************************************)
\* The number of events the window sends.
MaxEvents == 4

\* The capacity of the channel input in the model; the program's is 100
\* (line 82).
InputCap == 2

KeyInputs == {"prior", "left_arrow", "f1"}

Event(type, key) == [type |-> type, key |-> key]

EventInputs ==
  { Event("KeyUp", ""), Event("Close", "") } \cup
  { Event("KeyTyped", k) : k \in KeyInputs }

\* lines 126-139: the command a typed key sends, "" for any other key
KeyCommand(key) ==
  CASE key = "prior" -> "zoomIn"
    [] key = "next" -> "zoomOut"
    [] key = "up_arrow" -> "panUp"
    [] key = "down_arrow" -> "panDown"
    [] key = "left_arrow" -> "panLeft"
    [] key = "right_arrow" -> "panRight"
    [] OTHER -> ""

FRat(n, d) == FDiv(FromInt(n), FromInt(d))

\* complex(re, im) * complex(1/zoom, 0), re and im integers
PanStep(re, im, z) ==
  CMul(Cx(FromInt(re), FromInt(im)), Cx(FDiv(FromInt(1), z), FZero))

\* lines 90-103: the switch on the command
Apply(cmd, z, c) ==
  CASE cmd = "zoomIn" -> [zoom |-> FMul(z, FRat(105, 100)), center |-> c]
    [] cmd = "zoomOut" -> [zoom |-> FMul(z, FRat(95, 100)), center |-> c]
    [] cmd = "panUp" -> [zoom |-> z, center |-> CSub(c, PanStep(0, 10, z))]
    [] cmd = "panDown" -> [zoom |-> z, center |-> CAdd(c, PanStep(0, 10, z))]
    [] cmd = "panLeft" -> [zoom |-> z, center |-> CSub(c, PanStep(10, 0, z))]
    [] cmd = "panRight" -> [zoom |-> z, center |-> CAdd(c, PanStep(10, 0, z))]
    [] OTHER -> [zoom |-> z, center |-> c]

View(z, c) == [zoom |-> z, center |-> c]

Frame(v, complete) == [view |-> v, complete |-> complete]

\* lines 64-65
InitialView == View(FromInt(16000), Cx(FRat(-71, 100), FRat(-25, 100)))

UIIdle ==
  /\ events = <<>> /\ nEvents = 0 /\ closeSent = FALSE /\ input = <<>>
  /\ khpc = "recvEvent" /\ khI = 0 /\ khCmd = "" /\ khLast = "" /\ clTook = FALSE
  /\ clpc = "recv"
  /\ zoom = InitialView.zoom /\ center = InitialView.center
  /\ drawArgs = InitialView
  /\ canvasView = Frame(InitialView, TRUE)
  /\ screenView = Frame(InitialView, TRUE)
  /\ shownView = Frame(InitialView, TRUE)
  /\ started = 1 /\ flushed = 1
  /\ mainpc = "wait"

Running == mainpc = "wait"

\* The window sends an event; none after the CloseEvent.
Deliver(e) ==
  /\ Running
  /\ nEvents < MaxEvents
  /\ ~closeSent
  /\ events' = Append(events, e)
  /\ nEvents' = nEvents + 1
  /\ closeSent' = (e.type = "Close")
  /\ UNCHANGED <<input, khpc, khI, khCmd, khLast, clTook, clpc, zoom, center,
                 drawArgs, canvasView, screenView, shownView, started, flushed,
                 mainpc, fvars, gvars, cvars>>

\* lines 118-141: keyHandler receives the next event and switches on it
KhRecvEvent ==
  /\ Running
  /\ khpc = "recvEvent"
  /\ events # <<>>
  /\ LET e == Head(events)
         cmd == KeyCommand(e.key)
     IN /\ events' = Tail(events)
        /\ khLast' = e.type
        /\ khI' = 0
        /\ clTook' = IF e.type = "KeyUp" THEN FALSE ELSE clTook
        /\ CASE e.type = "KeyUp" -> khpc' = "drainTest" /\ khCmd' = ""
             [] e.type = "KeyTyped" /\ cmd # "" -> khpc' = "send" /\ khCmd' = cmd
             [] e.type = "Close" -> khpc' = "sendDone" /\ khCmd' = ""
             [] OTHER -> khpc' = "recvEvent" /\ khCmd' = ""
  /\ UNCHANGED <<nEvents, closeSent, input, clpc, zoom, center, drawArgs,
                 canvasView, screenView, shownView, started, flushed, mainpc,
                 fvars, gvars, cvars>>

\* line 122: the drain loop's test, i < len(input)
KhDrainTest ==
  /\ Running
  /\ khpc = "drainTest"
  /\ khpc' = IF khI < Len(input) THEN "drainRecv" ELSE "recvEvent"
  /\ UNCHANGED <<events, nEvents, closeSent, input, khI, khCmd, khLast, clTook,
                 clpc, zoom, center, drawArgs, canvasView, screenView,
                 shownView, started, flushed, mainpc, fvars, gvars, cvars>>

\* lines 122-123: _ = <-input, which waits for a command, then i++
KhDrainRecv ==
  /\ Running
  /\ khpc = "drainRecv"
  /\ input # <<>>
  /\ input' = Tail(input)
  /\ khI' = khI + 1
  /\ khpc' = "drainTest"
  /\ UNCHANGED <<events, nEvents, closeSent, khCmd, khLast, clTook, clpc, zoom,
                 center, drawArgs, canvasView, screenView, shownView, started,
                 flushed, mainpc, fvars, gvars, cvars>>

\* lines 128-138: input <- command, which waits while the buffer is full
KhSend ==
  /\ Running
  /\ khpc = "send"
  /\ Len(input) < InputCap
  /\ input' = Append(input, khCmd)
  /\ khCmd' = ""
  /\ khpc' = "recvEvent"
  /\ UNCHANGED <<events, nEvents, closeSent, khI, khLast, clTook, clpc, zoom,
                 center, drawArgs, canvasView, screenView, shownView, started,
                 flushed, mainpc, fvars, gvars, cvars>>

\* line 144 and line 112: done <- true meets main's <-done, and main returns
KhDone ==
  /\ Running
  /\ khpc = "sendDone"
  /\ khpc' = "exited"
  /\ mainpc' = "exited"
  /\ UNCHANGED <<events, nEvents, closeSent, input, khI, khCmd, khLast, clTook,
                 clpc, zoom, center, drawArgs, canvasView, screenView,
                 shownView, started, flushed, fvars, gvars, cvars>>

\* The command loop receives whatever it is doing.
ClAtRecvAlways == TRUE

\* line 88: the command loop is at its select
ClAtRecv == clpc = "recv"

\* lines 89-103: the command loop receives a command and applies it
ClRecv ==
  /\ Running
  /\ ClAtRecv
  /\ input # <<>>
  /\ \E v \in {Apply(Head(input), zoom, center)} :
       zoom' = v.zoom /\ center' = v.center
  /\ input' = Tail(input)
  /\ clTook' = TRUE
  /\ clpc' = "call"
  /\ UNCHANGED <<events, nEvents, closeSent, khpc, khI, khCmd, khLast, drawArgs,
                 canvasView, screenView, shownView, started, flushed, mainpc,
                 fvars, gvars, cvars>>

\* line 105: drawFractal is called with the values of zoom and center
ClDrawCall ==
  /\ Running
  /\ clpc = "call"
  /\ drawArgs' = View(zoom, center)
  /\ canvasView' = Frame(View(zoom, center), FALSE)
  /\ started' = started + 1
  /\ clpc' = "drawing"
  /\ UNCHANGED <<events, nEvents, closeSent, input, khpc, khI, khCmd, khLast,
                 clTook, zoom, center, screenView, shownView, flushed, mainpc,
                 fvars, gvars, cvars>>

\* lines 48-58: drawFractal has set every pixel and returns
ClDrawReturn ==
  /\ Running
  /\ clpc = "drawing"
  /\ canvasView' = Frame(drawArgs, TRUE)
  /\ clpc' = "copy"
  /\ UNCHANGED <<events, nEvents, closeSent, input, khpc, khI, khCmd, khLast,
                 clTook, zoom, center, drawArgs, screenView, shownView, started,
                 flushed, mainpc, fvars, gvars, cvars>>

\* line 106: dw.Screen().CopyRGBA(&canvas.RGBA, canvas.Bounds())
ClCopy ==
  /\ Running
  /\ clpc = "copy"
  /\ screenView' = canvasView
  /\ clpc' = "flush"
  /\ UNCHANGED <<events, nEvents, closeSent, input, khpc, khI, khCmd, khLast,
                 clTook, zoom, center, drawArgs, canvasView, shownView, started,
                 flushed, mainpc, fvars, gvars, cvars>>

\* line 107: dw.FlushImage()
ClFlush ==
  /\ Running
  /\ clpc = "flush"
  /\ shownView' = screenView
  /\ flushed' = flushed + 1
  /\ clpc' = "recv"
  /\ UNCHANGED <<events, nEvents, closeSent, input, khpc, khI, khCmd, khLast,
                 clTook, zoom, center, drawArgs, canvasView, screenView, started,
                 mainpc, fvars, gvars, cvars>>

KeyHandler == KhRecvEvent \/ KhDrainTest \/ KhDrainRecv \/ KhSend \/ KhDone

CommandLoop == ClRecv \/ ClDrawCall \/ ClDrawReturn \/ ClCopy \/ ClFlush

UINext == (\E e \in EventInputs : Deliver(e)) \/ KeyHandler \/ CommandLoop

vars == <<fvars, gvars, cvars, uvars>>

UIInit == FractalIdle /\ ColorIdle /\ CanvasIdle /\ UIIdle

SpecUI == UIInit /\ [][UINext]_vars

\* The Go scheduler runs every goroutine that can take a step.
FairSpecUI == SpecUI /\ WF_vars(KeyHandler) /\ WF_vars(CommandLoop)

MandelInit == FractalIdle /\ ColorIdle /\ CanvasIdle /\ UIIdle

SpecMandel == MandelInit /\ [][MandelNext]_vars

ColorInit == FractalIdle /\ ColorIdle /\ CanvasIdle /\ UIIdle

SpecColor == ColorInit /\ [][ColorNext]_vars

BlurNext ==
  \/ \E r \in 0..MaxRadius, w \in Weights, nb \in NaNBytes : BlurCall(r, w, nb)
  \/ BlurStep
  \/ BlurReturn

BlurInit == FractalIdle /\ ColorIdle /\ CanvasInit /\ UIIdle

SpecBlur == BlurInit /\ [][BlurNext]_vars

RectNext == \E r \in RectInputs : DrawRect(r)

RectInit == FractalIdle /\ ColorIdle /\ CanvasInit /\ UIIdle

SpecRect == RectInit /\ [][RectNext]_vars

(***************************************************************************)
(* The claims.                                                             *)
(***************************************************************************)
\* C1: BlurPixel samples only coordinates (i, j) with 0 <= i < width and
\* 0 <= j < height; a window coordinate outside the canvas is skipped and adds
\* nothing to the sums.
C1_SamplesInBounds ==
  opc \in {"blur", "blurDone"} => \A p \in sampled : InBounds(size, p[1], p[2])

\* C2: Blur never stores a pixel whose channels were computed by dividing by
\* a zero weight sum (it fails at the call instead).
C2_NoZeroWeightPixel == ~zeroDiv

Opaque(pix) == \A p \in DOMAIN pix : pix[p].A = 255

\* C3: on a canvas of opaque pixels Blur(0, WeightFunctionBox{}) leaves every
\* pixel as it was.
C3_BoxRadiusZeroIdentity ==
  (opc = "blurDone" /\ radius = 0 /\ weight = Box /\ Opaque(before))
    => heap[cbuf] = before

\* C4 as stated: for every gradient strip of height H and every magnitude in
\* [0, 1000] the row the colorizer reads satisfies 1 <= m <= H-1, and for
\* magnitude 0 it is row 1.
C4_Original ==
  cpc = "called" => /\ 1 <= cm /\ cm <= gH - 1
                    /\ (cmag = FZero => cm = 1)

\* C4 as amended: the same for every gradient strip of height H >= 2 (a strip
\* of height 1 has no row in 1..H-1, and the colorizer reads row 1 past its
\* end).
C4_IndexInStrip ==
  (cpc = "called" /\ gH >= 2) => /\ 1 <= cm /\ cm <= gH - 1
                                 /\ (cmag = FZero => cm = 1)

\* C4's case: a magnitude clamped to the last row of a strip of several rows.
C4_Witness ==
  /\ cpc = "called" /\ gH >= 3 /\ cm = gH - 1
  /\ cmag = FromInt(Bailout)

RECURSIVE Reduce(_)
\* The same value with an odd significand.
Reduce(a) == IF a.m # 0 /\ a.m % 2 = 0 THEN Reduce([m |-> a.m \div 2, e |-> a.e + 1]) ELSE a

\* |c| > k in exact arithmetic, k a positive integer.  A component more than
\* Prec+2 places below the other cannot lift a modulus below k over k.
ModExceeds(c, k) ==
  LET ax == FAbs(c.re)
      ay == FAbs(c.im)
      hi == IF FLess(ax, ay) THEN ay ELSE ax
      lo == IF FLess(ax, ay) THEN ax ELSE ay
  IN IF lo.m = 0 THEN FLess(FromInt(k), hi)
     ELSE IF hi.e - lo.e > Prec + 2 THEN ~FLess(hi, FromInt(k))
     ELSE LET rh == Reduce(hi)
              rl == Reduce(lo)
              E == IF rh.e < rl.e THEN rh.e ELSE rl.e
              lhs == rh.m * rh.m * 4^(rh.e - E) + rl.m * rl.m * 4^(rl.e - E)
          IN IF E <= 0 THEN lhs > k * k * 4^(-E) ELSE lhs * 4^E > k * k

RectPoints(r) == (r.minX..r.maxX) \X (r.minY..r.maxY)

\* C8 as stated: for every pair of integer corners DrawRect sets exactly
\* (maxX-minX+1)*(maxY-minY+1) pixels, every (x, y) of the rectangle, to color
\* and leaves every other pixel unchanged.
C8_Original ==
  opc = "rectDone" =>
    /\ Cardinality(written) =
         (rect.maxX - rect.minX + 1) * (rect.maxY - rect.minY + 1)
    /\ written = RectPoints(rect)
    /\ \A p \in Points(size) :
         heap[cbuf][p] = IF p \in RectPoints(rect) THEN rect.color ELSE before[p]

\* C8 as amended: DrawRect sets exactly the pixels of the canvas that lie in
\* the rectangle to color and leaves every other pixel unchanged; they are
\* (maxX-minX+1)*(maxY-minY+1) pixels when 0 <= minX <= maxX < width and
\* 0 <= minY <= maxY < height.
C8_FillsRectInCanvas ==
  opc = "rectDone" =>
    /\ written = RectPoints(rect) \cap Points(size)
    /\ \A p \in Points(size) :
         heap[cbuf][p] = IF p \in RectPoints(rect) THEN rect.color ELSE before[p]
    /\ (/\ 0 <= rect.minX /\ rect.minX <= rect.maxX /\ rect.maxX < size.X
        /\ 0 <= rect.minY /\ rect.minY <= rect.maxY /\ rect.maxY < size.Y)
         => Cardinality(written) =
              (rect.maxX - rect.minX + 1) * (rect.maxY - rect.minY + 1)

\* C8's case: a rectangle of two pixels inside a larger canvas has been drawn,
\* and changed a pixel.
C8_Witness ==
  /\ opc = "rectDone"
  /\ 0 <= rect.minX /\ rect.maxX < size.X /\ 0 <= rect.minY /\ rect.maxY < size.Y
  /\ Cardinality(written) = 2
  /\ Cardinality(Points(size)) > 2
  /\ heap[cbuf] # before

Processed(p) == p[1] < bx \/ (p[1] = bx /\ p[2] < by)

\* C9: during Blur the clone's buffer is not the source's, the source holds
\* the pixels it held at the call until every pixel has been computed, every
\* pixel computed so far is BlurPixel of the pixels at the call, and so is
\* every pixel of the canvas after the final copy.
C9_BlurReadsSnapshot ==
  /\ opc = "blur" =>
       /\ clone # cbuf
       /\ heap[cbuf] = before
       /\ \A p \in Points(size) :
            Processed(p) =>
              heap[clone][p] =
                BlurPixel(before, size, p[1], p[2], radius, weight, build).color
  /\ opc = "blurDone" =>
       \A p \in Points(size) :
         heap[cbuf][p] =
           BlurPixel(before, size, p[1], p[2], radius, weight, build).color

\* C9's case: in the middle of a pass with radius >= 1 the clone already
\* differs from the source at a pixel the next window reads.
C9_Witness ==
  /\ opc = "blur" /\ radius >= 1 /\ bx >= 1 /\ bx < size.X
  /\ \E p \in Points(size) : Processed(p) /\ heap[clone][p] # heap[cbuf][p]

InRender == clpc \in {"drawing", "copy", "flush"}

\* C6: renders never overlap and the view is stable during a render: a
\* drawFractal call is in progress or waits for its copy and flush exactly
\* when one more call than flush has been made, a call starts only when every
\* earlier frame has been flushed, the call in progress draws the current
\* zoom and center, and no step taken while it is in progress changes them.
C6_RendersSerialized ==
  /\ [](/\ started - flushed = IF InRender THEN 1 ELSE 0
        /\ clpc = "drawing" => drawArgs = View(zoom, center))
  /\ [][/\ started' # started => (started = flushed /\ started' = started + 1)
        /\ clpc = "drawing" => (zoom' = zoom /\ center' = center)]_vars

\* C6's case: a second command's render is in progress while the buffer of
\* input is full of further commands.
C6_Witness ==
  /\ clpc = "drawing" /\ started = 3 /\ Len(input) = InputCap
  /\ drawArgs # InitialView

\* C7: when keyHandler has handled a KeyUpEvent and the command loop took
\* nothing from input meanwhile, input is empty as keyHandler goes on to the
\* next event.
C7_KeyUpEmptiesInput ==
  (khpc = "recvEvent" /\ khLast = "KeyUp" /\ ~clTook) => input = <<>>

\* C10: under fair scheduling of keyHandler and the command loop, a
\* CloseEvent sent by the window is eventually followed by main returning.
C10_CloseLeadsToExit == closeSent ~> (mainpc = "exited")

=============================================================================
